---------------------------- MODULE Spec2Model ----------------------------
(***************************************************************************)
(* A model of the market-intelligence pipeline of cursor-pj:               *)
(*   - NewsSummarizer (01_basic_setup/news_summarizer.py), the narrator;   *)
(*   - NewsCollector  (01_basic_setup/news_collector.py), the collector;   *)
(*   - identify_hot_stocks (04_hot_stocks/hot_stock_collector.py);         *)
(*   - link_news_to_stock (04_hot_stocks/hot_stock_collector.py);          *)
(*   - NewsSummarizer.generate_daily_summary, the aggregate narrative;     *)
(*   - the report composers (01_basic_setup/email_sender.py and            *)
(*     04_hot_stocks/main.py);                                             *)
(*   - the two pipelines (01_basic_setup/main.py, 04_hot_stocks/main.py).  *)
(* Each component has a specification of its own (SpecNarrator,            *)
(* SpecCollector, SpecDetector, SpecLinker, SpecAggregator, SpecComposer,  *)
(* SpecPipeline); the variables of the other components stay at their      *)
(* initial values.                                                         *)
(*                                                                         *)
(* Python values: a string is a TLA+ string, None is NULL, a missing dict  *)
(* key is ABSENT.  A text produced by the backend is a sequence of tokens, *)
(* so that str.strip() is modelled by what it does.                        *)
(***************************************************************************)
EXTENDS Integers, Sequences, FiniteSets, TLC

VARIABLES
    \* ---- narrator (NewsSummarizer)
    articles,             \* the Collection handed to summarize_multiple_articles
    i,                    \* loop position, 1-based (the code's i is i - 1)
    summarized_articles,  \* the list being built
    npc,                  \* position of the narrator's thread of control
    depth,                \* number of summarize_news frames on the stack
    req,                  \* arguments of the running summarize_news call
    invoc,                \* the current top-level summarize_news invocation
    last,                 \* the last completed top-level invocation
    trace,                \* backend calls and sleeps of the run, in order
    \* ---- collector (NewsCollector.get_market_news)
    keywords,             \* the keywords argument ([none |-> TRUE] for None)
    max_articles,         \* the max_articles argument
    kidx,                 \* position in keywords[:3], 1-based
    all_articles,         \* raw articles accepted so far
    fetches,              \* the fetches issued, in order, with what came back
    cpc,                  \* position of the collector's thread of control
    formatted_articles,   \* the list get_market_news returns
    \* ---- detector (identify_hot_stocks)
    stock_data,           \* the series map, as its (symbol, df) items in order
    volume_threshold,     \* a rational [num, den]
    price_change_threshold,
    didx,                 \* position in stock_data.items(), 1-based
    dpc,                  \* position of the detector's thread of control
    hot_stocks,           \* the list identify_hot_stocks returns
    \* ---- cross-linker (link_news_to_stock)
    stock_symbol,         \* the symbol, a sequence of characters
    news_articles,        \* the narrated items
    lidx,                 \* position in news_articles, 1-based
    related,              \* the list being built
    lpc,                  \* position of the linker's thread of control
    \* ---- aggregate narrative (NewsSummarizer.generate_daily_summary)
    summary_input,        \* its summarized_articles argument
    gcalls,               \* the backend calls issued, in order
    daily_summary,        \* what it returns
    gpc,                  \* position of its thread of control
    \* ---- report composers
    composer,             \* which composer runs
    compose_args,         \* its arguments
    email_body,           \* the text it returns
    rpc,                  \* position of the composer's thread of control
    \* ---- pipelines (main of 01_basic_setup and of 04_hot_stocks)
    program,              \* which main runs
    PHASE1_AVAILABLE,     \* whether 04 main could import the phase-1 modules
    locals,               \* main's local variables
    stages,               \* the stages main has run, in order
    ppc                   \* position of main's thread of control

nvars == <<articles, i, summarized_articles, npc, depth, req, invoc, last, trace>>

cvars == <<keywords, max_articles, kidx, all_articles, fetches, cpc,
           formatted_articles>>

dvars == <<stock_data, volume_threshold, price_change_threshold, didx, dpc,
           hot_stocks>>

lvars == <<stock_symbol, news_articles, lidx, related, lpc>>

gvars == <<summary_input, gcalls, daily_summary, gpc>>

rvars == <<composer, compose_args, email_body, rpc>>

pvars == <<program, PHASE1_AVAILABLE, locals, stages, ppc>>

vars == <<nvars, cvars, dvars, lvars, gvars, rvars, pvars>>

\* What a step of one component leaves alone.
NarratorOnly == UNCHANGED <<cvars, dvars, lvars, gvars, rvars, pvars>>
CollectorOnly == UNCHANGED <<nvars, dvars, lvars, gvars, rvars, pvars>>
DetectorOnly == UNCHANGED <<nvars, cvars, lvars, gvars, rvars, pvars>>
LinkerOnly == UNCHANGED <<nvars, cvars, dvars, gvars, rvars, pvars>>
AggregatorOnly == UNCHANGED <<nvars, cvars, dvars, lvars, rvars, pvars>>
ComposerOnly == UNCHANGED <<nvars, cvars, dvars, lvars, gvars, pvars>>
PipelineOnly == UNCHANGED <<nvars, cvars, dvars, lvars, gvars, rvars>>

NULL == "<None>"
ABSENT == "<absent>"

\* None and a missing key where the values of the key are sequences.
None == <<NULL>>
Missing == <<ABSENT>>

\* ------------------------------------------------------------------ bounds
MaxArticles == 2
\* Most raw articles the provider returns over the fetches of one run.
MaxRawTotal == 3
\* Largest max_articles argument.
MaxMaxArticles == 2
\* Longest price series drawn exhaustively, and the largest volume and close in it.
MaxPoints == 2
MaxVolume == 2
MaxClose == 2
\* Depth at which CPython refuses one more summarize_news frame (RecursionError).
RecursionLimit == 3
\* Longest symbol and title of the cross-linker, and the most narrated items.
MaxSymbolLen == 3
MaxTitleLen == 2
MaxNews == 2
\* Longest list handed to generate_daily_summary.
MaxDaily == 6
\* Longest item list and longest signal list handed to a report composer.
MaxReportItems == 6
MaxSignals == 2
\* Most items get_market_news hands to a main.
MaxCollected == 2

\* ------------------------------------------------------- program constants
CoolDownSecs == 60
PaceSecs == 1
KeywordCap == 3
PageSizeCap == 20
SummaryCap == 5
TopItems == 5

\* --------------------------------------------------------- python helpers
\* dict.get(key, default): the default only when the key is missing.
Get(d, key, default) == IF d[key] = ABSENT THEN default ELSE d[key]

\* Truthiness of a str-or-None value: "" and None are falsy.
Truthy(v) == v # "" /\ v # NULL /\ v # ABSENT

\* str() of a value inside an f-string.
Str(v) == IF v = NULL \/ None = v THEN "None" ELSE v

\* dict.get(key, default) where the values of the key are sequences.
GetSeq(d, key, default) == IF d[key] = Missing THEN default ELSE d[key]

RECURSIVE LStrip(_)
LStrip(t) == IF t # <<>> /\ Head(t) = " " THEN LStrip(Tail(t)) ELSE t

RECURSIVE RStrip(_)
RStrip(t) ==
    IF t # <<>> /\ t[Len(t)] = " " THEN RStrip(SubSeq(t, 1, Len(t) - 1)) ELSE t

\* str.strip()
Strip(t) == RStrip(LStrip(t))

\* ----------------------------------------------------------- collector data
\* Raw provider articles.  `source` stands for the provider's source object by
\* its name; NULL is "source": null, ABSENT a payload without the key.
Raw(title, url, source, description, content, publishedAt, author) ==
    [title |-> title, url |-> url, source |-> source, description |-> description,
     content |-> content, publishedAt |-> publishedAt, author |-> author]

RawArticles ==
    { Raw("a", "u1",   "Reuters", "d1",   "c1",   "p1",   "w1"),
      Raw("b", "u1",   "Kyodo",   "d2",   "",     "p2",   NULL),
      Raw("c", "",     ABSENT,    NULL,   ABSENT, ABSENT, ABSENT),
      Raw("d", ABSENT, "Reuters", "",     NULL,   "p4",   "w4"),
      Raw("e", NULL,   "Kyodo",   ABSENT, "c5",   NULL,   "w5"),
      Raw("f", "u2",   NULL,      "d6",   "c6",   "p6",   "w6") }

\* The article lists of at most n articles.
RawLists(n) == UNION { [1..k -> RawArticles] : k \in 0..n }

RECURSIVE RawCount(_, _)
\* The number of raw articles the first n fetches of log f brought.
RawCount(f, n) == IF n = 0 THEN 0 ELSE RawCount(f, n - 1) + Len(f[n].articles)

\* Lines 41-44.
DefaultKeywords ==
    <<"market", "economy", "finance", "stocks", "trading",
      "investment", "economic", "financial", "business">>

KeywordInputs ==
    { [none |-> TRUE, list |-> <<>>],
      [none |-> FALSE, list |-> <<>>],
      [none |-> FALSE, list |-> <<"nikkei">>],
      [none |-> FALSE, list |-> <<"nikkei", "yen", "boj", "topix">>] }

Min(a, b) == IF a <= b THEN a ELSE b

\* s[:n] for n >= 0
Prefix(s, n) == SubSeq(s, 1, Min(n, Len(s)))

AllKeywords == IF keywords.none THEN DefaultKeywords ELSE keywords.list

\* Lines 40-44 and 52: the keywords that are queried.
QueriedKeywords ==
    Prefix(IF keywords.none THEN DefaultKeywords ELSE keywords.list, KeywordCap)

UrlKeyRaw(article) == article.url

\* article.get('url'): None when the key is missing.
UrlKey(article) == Get(article, "url", NULL)

\* Lines 74-75: the article is accepted unless an accepted one has its url.
Accept(all, article) ==
    IF \E k \in 1..Len(all) : UrlKey(all[k]) = UrlKey(article)
    THEN all
    ELSE Append(all, article)

\* Lines 73-75 over one response.
RECURSIVE Merge(_, _)
Merge(all, response) ==
    IF response = <<>>
    THEN all
    ELSE Merge(Accept(all, Head(response)), Tail(response))

\* Line 97: article.get('source', {}).get('name', '') raises on "source": null.
FormatFails(article) == article.source = NULL

\* Lines 92-100.
Format(article) ==
    [title        |-> Get(article, "title", ""),
     description  |-> Get(article, "description", ""),
     content      |-> Get(article, "content", ""),
     url          |-> Get(article, "url", ""),
     source       |-> Get(article, "source", ""),
     published_at |-> Get(article, "publishedAt", ""),
     author       |-> Get(article, "author", "")]

\* ---------------------------------------------------------- collector steps
IdleCollector ==
    /\ keywords = [none |-> FALSE, list |-> <<>>]
    /\ max_articles = 0
    /\ kidx = 1
    /\ all_articles = <<>>
    /\ fetches = <<>>
    /\ cpc = "idle"
    /\ formatted_articles = <<>>

InitCollector ==
    /\ keywords \in KeywordInputs
    /\ max_articles \in 0..MaxMaxArticles
    /\ kidx = 1
    /\ all_articles = <<>>
    /\ fetches = <<>>
    /\ cpc = "fetch"
    /\ formatted_articles = <<>>

\* Lines 54-65: the request for the current keyword goes out.
Fetched(status, response) ==
    /\ cpc = "fetch" /\ kidx <= Len(QueriedKeywords)
    /\ fetches' = Append(fetches,
                         [q |-> QueriedKeywords[kidx],
                          pageSize |-> Min(max_articles, PageSizeCap),
                          status |-> status, articles |-> response])
    /\ kidx' = kidx + 1
    /\ UNCHANGED <<keywords, max_articles, cpc, formatted_articles>>

\* Lines 66-77: status 'ok', the response merged.
FetchOk ==
    \E response \in RawLists(MaxRawTotal - RawCount(fetches, Len(fetches))) :
        /\ CollectorOnly
        /\ Fetched("ok", response)
        /\ all_articles' = Merge(all_articles, response)

\* Lines 65 and 81-82: requests.get raises (connection error, timeout).
FetchTransportError ==
    /\ CollectorOnly
    /\ Fetched("transport", <<>>)
    /\ UNCHANGED all_articles

\* Lines 66 and 81-82: raise_for_status raises on an HTTP error status.
FetchHttpError ==
    /\ CollectorOnly
    /\ Fetched("http", <<>>)
    /\ UNCHANGED all_articles

\* Lines 70 and 78-79: the payload's status is not 'ok'.
FetchNotOk ==
    /\ CollectorOnly
    /\ Fetched("notok", <<>>)
    /\ UNCHANGED all_articles

\* Lines 68 and 83-84: the payload cannot be read.
FetchUnreadable ==
    /\ CollectorOnly
    /\ Fetched("unreadable", <<>>)
    /\ UNCHANGED all_articles

\* all_articles[:max_articles]
Truncated == Prefix(all_articles, max_articles)

\* Lines 87-104: truncate, shape, return.
FinishFormatted ==
    /\ CollectorOnly
    /\ cpc = "fetch" /\ kidx > Len(QueriedKeywords)
    /\ \A k \in 1..Len(Truncated) : ~FormatFails(Truncated[k])
    /\ all_articles' = Truncated
    /\ formatted_articles' = [k \in 1..Len(Truncated) |-> Format(Truncated[k])]
    /\ cpc' = "done"
    /\ UNCHANGED <<keywords, max_articles, kidx, fetches>>

FinishFormatRaises ==
    /\ CollectorOnly
    /\ cpc = "fetch" /\ kidx > Len(QueriedKeywords)
    /\ \E k \in 1..Len(Truncated) : FormatFails(Truncated[k])
    /\ all_articles' = Truncated
    /\ cpc' = "raised"
    /\ UNCHANGED <<keywords, max_articles, kidx, fetches, formatted_articles>>

\* Lines 87-97 and 106-108: shaping one article raises, the outer except returns [].
FinishFormatFailed ==
    /\ CollectorOnly
    /\ cpc = "fetch" /\ kidx > Len(QueriedKeywords)
    /\ \E k \in 1..Len(Truncated) : FormatFails(Truncated[k])
    /\ all_articles' = Truncated
    /\ formatted_articles' = <<>>
    /\ cpc' = "done"
    /\ UNCHANGED <<keywords, max_articles, kidx, fetches>>

NextCollector ==
    \/ FetchOk
    \/ FetchTransportError
    \/ FetchHttpError
    \/ FetchNotOk
    \/ FetchUnreadable
    \/ FinishFormatted
    \/ FinishFormatFailed


\* ------------------------------------------------------------ detector data
\* A float is a fraction [num, den] with den >= 0: den = 0 is what IEEE division
\* by zero gives (num > 0: inf, num < 0: -inf, num = 0: nan).
Frac(n, d) == [num |-> n, den |-> d]

Zero == Frac(0, 1)

\* x >= t for a float x and a finite t; a comparison with nan is False.
GE(x, t) ==
    IF x.den = 0 THEN x.num > 0 ELSE x.num * t.den >= t.num * x.den

AbsInt(n) == IF n < 0 THEN 0 - n ELSE n

\* abs(x)
Abs(x) == Frac(AbsInt(x.num), x.den)

\* A DataFrame: its rows in time order and the columns it has.
Frame(rows) == [rows |-> rows, columns |-> {"Volume", "Close"}]

Row(v, c) == [Volume |-> v, Close |-> c]

Rows == { Row(v, c) : v \in 0..MaxVolume, c \in 0..MaxClose }

\* Longer series, and frames that lack a column.
OtherFrames ==
    { Frame(<<Row(0, 1), Row(0, 1), Row(2, 1)>>),
      Frame(<<Row(1, 2), Row(2, 2), Row(3, 3)>>),
      Frame(<<Row(100, 100), Row(100, 100), Row(100, 100), Row(100, 100),
              Row(500, 106)>>),
      Frame(<<Row(1, 1)>>),
      [rows |-> <<Row(1, 1), Row(2, 2)>>, columns |-> {"Close"}],
      [rows |-> <<Row(1, 1), Row(2, 2)>>, columns |-> {"Volume"}] }

Frames ==
    { Frame(rows) : rows \in UNION { [1..n -> Rows] : n \in 0..MaxPoints } }
    \cup OtherFrames

Item(symbol, df) == [symbol |-> symbol, df |-> df]

SymbolPairs == { <<"7203.T", "AAPL">>, <<"AAPL", "7203.T">> }

\* Maps of up to two symbols; of two series one is drawn from all of Frames.
StockDataInput(data) ==
    \/ data = <<>>
    \/ \E f \in Frames : data = <<Item("7203.T", f)>>
    \/ \E f \in Frames, g \in OtherFrames, p \in SymbolPairs :
          \/ data = <<Item(p[1], f), Item(p[2], g)>>
          \/ data = <<Item(p[1], g), Item(p[2], f)>>

VolumeThresholds == { Frac(2, 1), Frac(0, 1), Frac(3, 2) }

PriceThresholds == { Frac(1, 20), Frac(1, 1), Frac(0, 1) }

RECURSIVE SumVolume(_, _)
\* The sum of the first n volumes.
SumVolume(rows, n) ==
    IF n = 0 THEN 0 ELSE SumVolume(rows, n - 1) + rows[n].Volume

\* Lines 54-56 raise KeyError without the Volume column, line 58 without Close.
Malformed(df) == df.columns # {"Volume", "Close"}

VolumeRatioUnguarded(df) ==
    LET n == Len(df.rows) - 1
    IN  Frac(df.rows[n + 1].Volume * n, SumVolume(df.rows, n))

\* Lines 54-56: last volume over the mean of the earlier ones; 0 when that mean
\* is not positive.
VolumeRatio(df) ==
    LET n == Len(df.rows) - 1
        total == SumVolume(df.rows, n)
    IN  IF total > 0
        THEN Frac(df.rows[n + 1].Volume * n, total)
        ELSE Zero

PriceChangeOverLast(df) ==
    LET n == Len(df.rows)
    IN  Frac(df.rows[n].Close - df.rows[n - 1].Close, df.rows[n].Close)

\* Line 58.
PriceChange(df) ==
    LET n == Len(df.rows)
    IN  Frac(df.rows[n].Close - df.rows[n - 1].Close, df.rows[n - 1].Close)

VolumeFiresStrict(ratio, threshold) == ~GE(threshold, ratio)

\* Line 60.
VolumeFires(ratio, threshold) == GE(ratio, threshold)

\* Line 62.
PriceFires(change, threshold) == GE(Abs(change), threshold)

\* Lines 59-63.
Reasons(df, vt, pt) ==
    (IF VolumeFires(VolumeRatio(df), vt)
     THEN <<[rule |-> "volume", value |-> VolumeRatio(df)]>> ELSE <<>>)
    \o
    (IF PriceFires(PriceChange(df), pt)
     THEN <<[rule |-> "price", value |-> PriceChange(df)]>> ELSE <<>>)

\* ----------------------------------------------------------- detector steps
IdleDetector ==
    /\ stock_data = <<>>
    /\ volume_threshold = Frac(2, 1)
    /\ price_change_threshold = Frac(1, 20)
    /\ didx = 1
    /\ dpc = "idle"
    /\ hot_stocks = <<>>

InitDetector ==
    /\ StockDataInput(stock_data)
    /\ volume_threshold \in VolumeThresholds
    /\ price_change_threshold \in PriceThresholds
    /\ didx = 1
    /\ dpc = "loop"
    /\ hot_stocks = <<>>

AtSymbol == dpc = "loop" /\ didx <= Len(stock_data)

NextSymbol ==
    /\ didx' = didx + 1
    /\ UNCHANGED <<stock_data, volume_threshold, price_change_threshold, dpc>>

DetectTooShortRaises ==
    /\ DetectorOnly
    /\ AtSymbol
    /\ Len(stock_data[didx].df.rows) < 2
    /\ dpc' = "raised"
    /\ UNCHANGED <<stock_data, volume_threshold, price_change_threshold, didx,
                   hot_stocks>>

\* Lines 51-52: fewer than two points.
DetectTooShort ==
    /\ DetectorOnly
    /\ AtSymbol
    /\ Len(stock_data[didx].df.rows) < 2
    /\ NextSymbol
    /\ UNCHANGED hot_stocks

DetectMalformedRaises ==
    /\ DetectorOnly
    /\ AtSymbol
    /\ Len(stock_data[didx].df.rows) >= 2
    /\ Malformed(stock_data[didx].df)
    /\ dpc' = "raised"
    /\ UNCHANGED <<stock_data, volume_threshold, price_change_threshold, didx,
                   hot_stocks>>

\* Lines 54-58 raise, lines 71-72 log.
DetectMalformed ==
    /\ DetectorOnly
    /\ AtSymbol
    /\ Len(stock_data[didx].df.rows) >= 2
    /\ Malformed(stock_data[didx].df)
    /\ NextSymbol
    /\ UNCHANGED hot_stocks

DetectHotPrepended ==
    /\ DetectorOnly
    /\ AtSymbol
    /\ Len(stock_data[didx].df.rows) >= 2
    /\ ~Malformed(stock_data[didx].df)
    /\ LET df == stock_data[didx].df
           reasons == Reasons(df, volume_threshold, price_change_threshold)
       IN  /\ reasons # <<>>
           /\ hot_stocks' = <<[symbol |-> stock_data[didx].symbol,
                               volume_ratio |-> VolumeRatio(df),
                               price_change |-> PriceChange(df),
                               reasons |-> reasons]>> \o hot_stocks
    /\ NextSymbol

\* Lines 54-70 with a reason: the signal is appended.
DetectHot ==
    /\ DetectorOnly
    /\ AtSymbol
    /\ Len(stock_data[didx].df.rows) >= 2
    /\ ~Malformed(stock_data[didx].df)
    /\ LET df == stock_data[didx].df
           reasons == Reasons(df, volume_threshold, price_change_threshold)
       IN  /\ reasons # <<>>
           /\ hot_stocks' = Append(hot_stocks,
                                   [symbol |-> stock_data[didx].symbol,
                                    volume_ratio |-> VolumeRatio(df),
                                    price_change |-> PriceChange(df),
                                    reasons |-> reasons])
    /\ NextSymbol

\* Lines 54-64 with no reason.
DetectCold ==
    /\ DetectorOnly
    /\ AtSymbol
    /\ Len(stock_data[didx].df.rows) >= 2
    /\ ~Malformed(stock_data[didx].df)
    /\ Reasons(stock_data[didx].df, volume_threshold, price_change_threshold) = <<>>
    /\ NextSymbol
    /\ UNCHANGED hot_stocks

\* Line 73.
DetectReturn ==
    /\ DetectorOnly
    /\ dpc = "loop" /\ didx > Len(stock_data)
    /\ dpc' = "done"
    /\ UNCHANGED <<stock_data, volume_threshold, price_change_threshold, didx,
                   hot_stocks>>

NextDetector ==
    \/ DetectTooShort
    \/ DetectMalformed
    \/ DetectHot
    \/ DetectCold
    \/ DetectReturn

\* ------------------------------------------------------------ narrator data
\* What the text-generation backend may answer (response.choices[0].message.content).
BackendTexts == { <<"s1">>, <<" ", "s2", " ">> }

\* Items as the collector shapes them, and as a caller may hand them over.
ArticleVals ==
    { [title |-> "T1",   content |-> "c1", description |-> "d1"],
      [title |-> "T2",   content |-> "",   description |-> "d2"],
      [title |-> "T3",   content |-> NULL, description |-> ""],
      [title |-> NULL,   content |-> "c4", description |-> ""],
      [title |-> ABSENT, content |-> "c5", description |-> ABSENT] }

Collections == UNION { [1..n -> ArticleVals] : n \in 0..MaxArticles }

NoInvocation ==
    [item |-> 0, reqs |-> <<>>, outs |-> <<>>, sleeps |-> <<>>, text |-> <<>>,
     ret |-> <<>>, returned |-> FALSE, raised |-> FALSE]

Event(kind, item, out, secs) == [k |-> kind, i |-> item, out |-> out, secs |-> secs]

HasContentField(article) == Truthy(Get(article, "content", ""))

\* The body handed to summarize_news: content, else description.
ContentOf(article) ==
    IF Truthy(Get(article, "content", ""))
    THEN Get(article, "content", "")
    ELSE Get(article, "description", "")

HasContent(article) == Truthy(ContentOf(article))

\* f"要約エラー: {title}"
Placeholder(title) == <<"SummaryError: ", Str(title)>>

WithoutSummary(article, summary) == article

\* article.copy() with article_with_summary['summary'] = summary
WithSummary(article, summary) ==
    [key \in DOMAIN article \cup {"summary"} |->
        IF key = "summary" THEN summary ELSE article[key]]

ArticlesWritten(collection, j, summary) ==
    [collection EXCEPT ![j] = WithSummary(@, summary)]

\* Lines 115-116 and 124-125: the summary is set on article.copy(); the list that
\* was passed in and its j-th dict are not written.
ArticlesAfter(collection, j, summary) == collection

RetryRequestNoTitle(r) == [r EXCEPT !.title = ""]

\* The arguments of the recursive call: self.summarize_news(article_text, title)
RetryRequest(r) == r

\* Whether CPython still grants one more summarize_news frame.
CanRecurse(d) == d < RecursionLimit

\* ---------------------------------------------------------- narrator steps
IdleNarrator ==
    /\ articles = <<>>
    /\ i = 1
    /\ summarized_articles = <<>>
    /\ npc = "idle"
    /\ depth = 0
    /\ req = [article_text |-> "", title |-> ""]
    /\ invoc = NoInvocation
    /\ last = NoInvocation
    /\ trace = <<>>

InitNarrator ==
    /\ articles \in Collections
    /\ i = 1
    /\ summarized_articles = <<>>
    /\ npc = "loop"
    /\ depth = 0
    /\ req = [article_text |-> "", title |-> ""]
    /\ invoc = NoInvocation
    /\ last = NoInvocation
    /\ trace = <<>>

\* Lines 114-121: the summary is attached to a copy, the copy appended, and the
\* pacing sleep is due unless this was the last index of the Collection.
AfterSummary(summary) ==
    /\ summarized_articles' =
           Append(summarized_articles, WithSummary(articles[i], summary))
    /\ articles' = ArticlesAfter(articles, i, summary)
    /\ IF i < Len(articles)
       THEN npc' = "pace" /\ i' = i
       ELSE npc' = "loop" /\ i' = i + 1

\* summarize_news returns `summary` to summarize_multiple_articles.
ReturnSummary(out, text, summary) ==
    /\ last' = [invoc EXCEPT !.reqs = Append(@, req), !.outs = Append(@, out),
                             !.text = text, !.ret = summary, !.returned = TRUE]
    /\ invoc' = NoInvocation
    /\ depth' = 0
    /\ AfterSummary(summary)

\* Lines 103-109: an item without content and without description is skipped.
LoopSkip ==
    /\ NarratorOnly
    /\ npc = "loop" /\ i <= Len(articles)
    /\ ~HasContent(articles[i])
    /\ i' = i + 1
    /\ UNCHANGED <<articles, summarized_articles, npc, depth, req, invoc, last, trace>>

\* Line 112 and lines 39-60: summarize_news is entered and reaches the backend call.
LoopInvoke ==
    /\ NarratorOnly
    /\ npc = "loop" /\ i <= Len(articles)
    /\ HasContent(articles[i])
    /\ Get(articles[i], "title", "") # NULL
    /\ req' = [article_text |-> ContentOf(articles[i]),
               title |-> Get(articles[i], "title", "")]
    /\ invoc' = [NoInvocation EXCEPT !.item = i]
    /\ depth' = 1
    /\ npc' = "call"
    /\ UNCHANGED <<articles, i, summarized_articles, last, trace>>

\* Line 58 with title None: title[:50] raises TypeError before the backend is
\* called; lines 84-86 turn it into the placeholder.
LoopInvokeNoneTitle ==
    /\ NarratorOnly
    /\ npc = "loop" /\ i <= Len(articles)
    /\ HasContent(articles[i])
    /\ Get(articles[i], "title", "") = NULL
    /\ req' = [article_text |-> ContentOf(articles[i]), title |-> NULL]
    /\ last' = [NoInvocation EXCEPT !.item = i, !.ret = Placeholder(NULL),
                                    !.returned = TRUE]
    /\ invoc' = NoInvocation
    /\ depth' = 0
    /\ AfterSummary(Placeholder(NULL))
    /\ UNCHANGED trace

\* Line 60: the request goes out.
Called(out) ==
    /\ npc = "call"
    /\ trace' = Append(trace, Event("call", i, out, 0))

\* Lines 60-73: the backend answers; the stripped text is returned through every
\* summarize_news frame.
BackendOk ==
    \E text \in BackendTexts :
        /\ NarratorOnly
        /\ Called("ok")
        /\ ReturnSummary("ok", text, Strip(text))
        /\ UNCHANGED req

\* Lines 75-76: openai.error.RateLimitError.
BackendRateLimit ==
    /\ NarratorOnly
    /\ Called("ratelimit")
    /\ invoc' = [invoc EXCEPT !.reqs = Append(@, req), !.outs = Append(@, "ratelimit")]
    /\ npc' = "cooldown"
    /\ UNCHANGED <<articles, i, summarized_articles, depth, req, last>>

BackendAPIErrorRaises ==
    /\ NarratorOnly
    /\ Called("apierror")
    /\ last' = [invoc EXCEPT !.reqs = Append(@, req), !.outs = Append(@, "apierror"),
                             !.raised = TRUE]
    /\ invoc' = NoInvocation
    /\ depth' = 0
    /\ npc' = "done"
    /\ UNCHANGED <<articles, i, summarized_articles, req>>

\* Lines 80-82: openai.error.APIError.
BackendAPIError ==
    /\ NarratorOnly
    /\ Called("apierror")
    /\ ReturnSummary("apierror", <<>>, Placeholder(req.title))
    /\ UNCHANGED req

\* Lines 84-86: any other exception of the call (timeout, malformed response).
BackendException ==
    /\ NarratorOnly
    /\ Called("exception")
    /\ ReturnSummary("exception", <<>>, Placeholder(req.title))
    /\ UNCHANGED req

\* Line 77: time.sleep(60).
Slept60 ==
    /\ npc = "cooldown"
    /\ trace' = Append(trace, Event("sleep", i, "", CoolDownSecs))
    /\ invoc' = [invoc EXCEPT !.sleeps = Append(@, CoolDownSecs)]

\* Lines 77-78: the cool-down, then summarize_news calls itself.
CoolDownRetry ==
    /\ NarratorOnly
    /\ Slept60
    /\ CanRecurse(depth)
    /\ depth' = depth + 1
    /\ req' = RetryRequest(req)
    /\ npc' = "call"
    /\ UNCHANGED <<articles, i, summarized_articles, last>>

\* Line 78 at the interpreter's recursion limit, the RecursionError raised inside
\* the try of the deepest frame: lines 84-86 return the placeholder, and every
\* frame above returns it.
CoolDownRecursionCaught ==
    /\ NarratorOnly
    /\ npc = "cooldown"
    /\ ~CanRecurse(depth)
    /\ trace' = Append(trace, Event("sleep", i, "", CoolDownSecs))
    /\ last' = [invoc EXCEPT !.sleeps = Append(@, CoolDownSecs),
                             !.ret = Placeholder(req.title), !.returned = TRUE]
    /\ invoc' = NoInvocation
    /\ depth' = 0
    /\ AfterSummary(Placeholder(req.title))
    /\ UNCHANGED req

CoolDownRecursionUncaught ==
    /\ NarratorOnly
    /\ npc = "cooldown"
    /\ ~CanRecurse(depth)
    /\ trace' = Append(trace, Event("sleep", i, "", CoolDownSecs))
    /\ last' = [invoc EXCEPT !.sleeps = Append(@, CoolDownSecs), !.raised = TRUE]
    /\ invoc' = NoInvocation
    /\ depth' = 0
    /\ npc' = "raised"
    /\ UNCHANGED <<articles, i, summarized_articles, req>>

\* Line 78 at the recursion limit, the RecursionError raised by the call itself,
\* inside the except clause: it leaves every frame, and lines 123-128 of
\* summarize_multiple_articles append the placeholder (no pacing sleep).
CoolDownRecursionRaised ==
    /\ NarratorOnly
    /\ npc = "cooldown"
    /\ ~CanRecurse(depth)
    /\ trace' = Append(trace, Event("sleep", i, "", CoolDownSecs))
    /\ last' = [invoc EXCEPT !.sleeps = Append(@, CoolDownSecs), !.raised = TRUE]
    /\ invoc' = NoInvocation
    /\ depth' = 0
    /\ summarized_articles' =
           Append(summarized_articles,
                  WithSummary(articles[i],
                              Placeholder(Get(articles[i], "title", "Unknown"))))
    /\ articles' = ArticlesAfter(articles, i,
                                 Placeholder(Get(articles[i], "title", "Unknown")))
    /\ i' = i + 1
    /\ npc' = "loop"
    /\ UNCHANGED req

\* Lines 120-121: time.sleep(1) between items.
Pace ==
    /\ NarratorOnly
    /\ npc = "pace"
    /\ trace' = Append(trace, Event("sleep", i, "", PaceSecs))
    /\ i' = i + 1
    /\ npc' = "loop"
    /\ UNCHANGED <<articles, summarized_articles, depth, req, invoc, last>>

\* Lines 130-131: the loop is over, the list is returned.
ReturnSummarized ==
    /\ NarratorOnly
    /\ npc = "loop" /\ i > Len(articles)
    /\ npc' = "done"
    /\ UNCHANGED <<articles, i, summarized_articles, depth, req, invoc, last, trace>>

NextNarrator ==
    \/ LoopSkip
    \/ LoopInvoke
    \/ LoopInvokeNoneTitle
    \/ BackendOk
    \/ BackendRateLimit
    \/ BackendAPIError
    \/ BackendException
    \/ CoolDownRetry
    \/ CoolDownRecursionCaught
    \/ CoolDownRecursionRaised
    \/ Pace
    \/ ReturnSummarized

\* -------------------------------------------------------------- linker data
\* A symbol and a title are sequences of characters, so that str.split and the
\* `in` of two strings are modelled by what they do.
Chars == { "7", "T", "." }

Strings(n) == UNION { [1..k -> Chars] : k \in 0..n }

Symbols == Strings(MaxSymbolLen)

News(title, summary, url) == [title |-> title, summary |-> summary, url |-> url]

\* Narrated items: every short title, and items that lack a key or whose title
\* is None.
NewsVals ==
    { News(t, "s1", "u1") : t \in Strings(MaxTitleLen) }
    \cup { News(<<"7">>, ABSENT, ABSENT), News(Missing, "s2", "u2"),
           News(None, "s3", "u3") }

NewsLists == UNION { [1..k -> NewsVals] : k \in 0..MaxNews }

\* The position of the first '.', or Len(s) + 1 without one.
FirstDot(s) ==
    IF \E k \in 1..Len(s) : s[k] = "."
    THEN CHOOSE k \in 1..Len(s) : s[k] = "." /\ \A j \in 1..(k - 1) : s[j] # "."
    ELSE Len(s) + 1

\* Line 87: stock_symbol.split('.')[0]
SplitFirst(s) == SubSeq(s, 1, FirstDot(s) - 1)

\* needle in haystack, for two strings
Contains(haystack, needle) ==
    \E k \in 0..(Len(haystack) - Len(needle)) :
        SubSeq(haystack, k + 1, k + Len(needle)) = needle

\* Line 86: article.get('title', '')
TitleOf(article) == GetSeq(article, "title", <<>>)

\* Line 87 raises TypeError when the title is None.
LinkFails(article) == TitleOf(article) = None

\* Line 87.
Matches(symbol, article) ==
    \/ Contains(TitleOf(article), SplitFirst(symbol))
    \/ Contains(TitleOf(article), symbol)

\* Lines 88-92.
Linked(article) ==
    News(TitleOf(article), Get(article, "summary", ""), Get(article, "url", ""))

\* ------------------------------------------------------------- linker steps
IdleLinker ==
    /\ stock_symbol = <<>>
    /\ news_articles = <<>>
    /\ lidx = 1
    /\ related = <<>>
    /\ lpc = "idle"

InitLinker ==
    /\ stock_symbol \in Symbols
    /\ news_articles \in NewsLists
    /\ lidx = 1
    /\ related = <<>>
    /\ lpc = "loop"

AtNews == lpc = "loop" /\ lidx <= Len(news_articles)

\* Lines 85-92: the title holds the symbol or its first component.
LinkMatch ==
    /\ LinkerOnly
    /\ AtNews
    /\ ~LinkFails(news_articles[lidx])
    /\ Matches(stock_symbol, news_articles[lidx])
    /\ related' = Append(related, Linked(news_articles[lidx]))
    /\ lidx' = lidx + 1
    /\ UNCHANGED <<stock_symbol, news_articles, lpc>>

\* Lines 85-87: it holds neither.
LinkNoMatch ==
    /\ LinkerOnly
    /\ AtNews
    /\ ~LinkFails(news_articles[lidx])
    /\ ~Matches(stock_symbol, news_articles[lidx])
    /\ lidx' = lidx + 1
    /\ UNCHANGED <<stock_symbol, news_articles, related, lpc>>

\* Line 87 with a None title: the TypeError leaves link_news_to_stock.
LinkRaises ==
    /\ LinkerOnly
    /\ AtNews
    /\ LinkFails(news_articles[lidx])
    /\ lpc' = "raised"
    /\ UNCHANGED <<stock_symbol, news_articles, lidx, related>>

\* Line 93.
LinkReturn ==
    /\ LinkerOnly
    /\ lpc = "loop" /\ lidx > Len(news_articles)
    /\ lpc' = "done"
    /\ UNCHANGED <<stock_symbol, news_articles, lidx, related>>

NextLinker ==
    \/ LinkMatch
    \/ LinkNoMatch
    \/ LinkRaises
    \/ LinkReturn

\* ---------------------------------------------------------- aggregate data
\* Narrated items as generate_daily_summary reads them: title and summary.
Narration(title, summary) == [title |-> title, summary |-> summary]

NarrationVals ==
    { Narration("T1", "s1"), Narration(ABSENT, ABSENT), Narration(NULL, "s3") }

NarrationLists == UNION { [1..k -> NarrationVals] : k \in 0..MaxDaily }

\* Line 145.
NothingNotable == <<"NothingNotableToday">>

\* Line 188.
DailyFallback == <<"DailySummaryError">>

DailyNeverEmpty(input) == FALSE

\* Line 144: not summarized_articles
DailyIsEmpty(input) == input = <<>>

DailyItemsAll(input) == input

\* Line 149: summarized_articles[:5]
DailyItems(input) == Prefix(input, SummaryCap)

\* Lines 148-151: one numbered entry per item, title and summary with defaults.
ArticlesText(input) ==
    [k \in 1..Len(DailyItems(input)) |->
        [n |-> k,
         title |-> Str(Get(DailyItems(input)[k], "title", "Unknown")),
         summary |-> Str(Get(DailyItems(input)[k], "summary", "No summary"))]]

\* --------------------------------------------------------- aggregate steps
IdleAggregator ==
    /\ summary_input = <<>>
    /\ gcalls = <<>>
    /\ daily_summary = <<>>
    /\ gpc = "idle"

InitAggregator ==
    /\ summary_input \in NarrationLists
    /\ gcalls = <<>>
    /\ daily_summary = <<>>
    /\ gpc = "start"

\* Lines 144-145: nothing to summarize, the fixed sentence is returned.
DailyEmpty ==
    /\ AggregatorOnly
    /\ gpc = "start"
    /\ DailyIsEmpty(summary_input)
    /\ daily_summary' = NothingNotable
    /\ gpc' = "done"
    /\ UNCHANGED <<summary_input, gcalls>>

\* Lines 148-171: the prompt is built and the request goes out.
DailyPrompt ==
    /\ AggregatorOnly
    /\ gpc = "start"
    /\ ~DailyIsEmpty(summary_input)
    /\ gcalls' = Append(gcalls, [prompt |-> ArticlesText(summary_input), out |-> ""])
    /\ gpc' = "call"
    /\ UNCHANGED <<summary_input, daily_summary>>

DailyAnswered(out) ==
    /\ gpc = "call"
    /\ gcalls' = [gcalls EXCEPT ![Len(gcalls)].out = out]
    /\ gpc' = "done"
    /\ UNCHANGED summary_input

\* Lines 171-184: the backend answers, the stripped text is returned.
DailyBackendOk ==
    \E text \in BackendTexts :
        /\ AggregatorOnly
        /\ DailyAnswered("ok")
        /\ daily_summary' = Strip(text)

\* Lines 171 and 186-188: the call raises (rate limit, API error, anything else);
\* the fixed sentence is returned.
DailyBackendFails ==
    \E out \in {"ratelimit", "apierror", "exception"} :
        /\ AggregatorOnly
        /\ DailyAnswered(out)
        /\ daily_summary' = DailyFallback

NextAggregator ==
    \/ DailyEmpty
    \/ DailyPrompt
    \/ DailyBackendOk
    \/ DailyBackendFails

\* ----------------------------------------------------------- composer data
\* A report text is the sequence of its fragments: the literal parts of the
\* f-strings by name, the interpolated values as themselves.
Today == "today"

\* summarized items as create_market_report_email reads them
Summarized(title, source, published_at, summary, url) ==
    [title |-> title, source |-> source, published_at |-> published_at,
     summary |-> summary, url |-> url]

SummarizedVals ==
    { Summarized("T1", "Reuters", "p1", "s1", "u1"),
      Summarized(ABSENT, ABSENT, ABSENT, ABSENT, ABSENT),
      Summarized(NULL, "Kyodo", NULL, "s3", "") }

SummarizedLists == UNION { [1..k -> SummarizedVals] : k \in 0..MaxReportItems }

DailySummaries == { <<"s1">>, <<"s1", "s2">>, NothingNotable, DailyFallback }

\* anomaly signals as create_hot_stock_report_email reads them: a dict with the
\* keys it has
Signal(symbol, reasons, related_news) ==
    [keys |-> {"symbol", "reasons", "related_news"},
     symbol |-> symbol, reasons |-> reasons, related_news |-> related_news]

Without(stock, key) == [stock EXCEPT !.keys = @ \ {key}]

SignalVals ==
    { Signal("7203.T", <<"volume">>, <<News("t1", "s1", "u1")>>),
      Signal("AAPL", <<"volume", "price">>, <<>>),
      Without(Signal("MSFT", <<"price">>, <<>>), "related_news"),
      Signal("6758.T", <<"price">>, <<News("t2", NULL, "u2"), News("t3", "s3", "u3")>>),
      Without(Signal("6758.T", <<>>, <<>>), "reasons"),
      Without(Signal("", <<"volume">>, <<>>), "symbol"),
      Signal("AAPL", <<"volume">>, <<News("t4", ABSENT, "u4")>>) }

SignalLists == UNION { [1..k -> SignalVals] : k \in 0..MaxSignals }

ComposeArgs(daily, items, signals) ==
    [daily_summary |-> daily, summarized_articles |-> items, hot_stocks |-> signals]

Ordinals == <<"1.", "2.", "3.", "4.", "5.", "6.", "7.", "8.">>

RECURSIVE Flatten(_)
\* The concatenation of a sequence of texts.
Flatten(texts) ==
    IF texts = <<>> THEN <<>> ELSE Head(texts) \o Flatten(Tail(texts))

AllArticles(items) == items

\* email_sender.py line 120: summarized_articles[:5]
TopArticles(items) == Prefix(items, TopItems)

\* email_sender.py lines 121-131: one entry, every field with its default.
MarketEntry(k, article) ==
    << Ordinals[k], Str(Get(article, "title", "Unknown")),
       "Source:", Str(Get(article, "source", "Unknown")),
       "Published:", Str(Get(article, "published_at", "Unknown")),
       "Summary:", Str(Get(article, "summary", "No summary")),
       "Detail:", Str(Get(article, "url", "No URL")) >>

\* email_sender.py lines 103-143.
MarketReport(daily, items) ==
    << "MarketReportTitle", Today, "Rule", "SummaryHeading" >> \o daily
    \o << "Rule", "DetailsHeading" >>
    \o Flatten([k \in 1..Len(TopArticles(items)) |->
                   MarketEntry(k, TopArticles(items)[k])])
    \o << "Rule", "MarketDisclaimer", "Rule" >>

\* 04 main.py line 88: news['title'], news['summary'], news['url']
NewsLineFails(news) ==
    news.title = ABSENT \/ news.summary = ABSENT \/ news.url = ABSENT

\* 04 main.py lines 82-88: stock['symbol'] and stock['reasons'] must be there, and
\* so must the three keys of every linked news when there are linked news.
SignalFails(stock) ==
    \/ "symbol" \notin stock.keys
    \/ "reasons" \notin stock.keys
    \/ /\ "related_news" \in stock.keys
       /\ \E n \in 1..Len(stock.related_news) : NewsLineFails(stock.related_news[n])

\* 04 main.py line 88.
NewsLine(news) == << "News", Str(news.title), Str(news.summary), Str(news.url) >>

\* 04 main.py lines 82-89.
SignalEntry(stock) ==
    << "Stock", Str(stock.symbol) >>
    \o Flatten([r \in 1..Len(stock.reasons) |-> << "Reason", stock.reasons[r] >>])
    \o (IF "related_news" \in stock.keys /\ stock.related_news # <<>>
        THEN << "RelatedNews:" >>
                 \o Flatten([n \in 1..Len(stock.related_news) |->
                                NewsLine(stock.related_news[n])])
        ELSE <<>>)

\* 04 main.py lines 73-97.
HotStockReport(signals) ==
    << "HotStockReportTitle", Today, "Rule" >>
    \o Flatten([k \in 1..Len(signals) |-> SignalEntry(signals[k])])
    \o << "Rule", "HotStockDisclaimer", "Rule" >>

\* ---------------------------------------------------------- composer steps
IdleComposer ==
    /\ composer = "none"
    /\ compose_args = ComposeArgs(<<>>, <<>>, <<>>)
    /\ email_body = <<>>
    /\ rpc = "idle"

InitComposer ==
    /\ \/ /\ composer = "create_market_report_email"
          /\ \E daily \in DailySummaries, items \in SummarizedLists :
                compose_args = ComposeArgs(daily, items, <<>>)
       \/ /\ composer = "create_hot_stock_report_email"
          /\ \E signals \in SignalLists :
                compose_args = ComposeArgs(<<>>, <<>>, signals)
    /\ email_body = <<>>
    /\ rpc = "start"

\* email_sender.py lines 103-143.
ComposeMarket ==
    /\ ComposerOnly
    /\ rpc = "start" /\ composer = "create_market_report_email"
    /\ email_body' =
           MarketReport(compose_args.daily_summary, compose_args.summarized_articles)
    /\ rpc' = "done"
    /\ UNCHANGED <<composer, compose_args>>

\* 04 main.py lines 73-97.
ComposeHot ==
    /\ ComposerOnly
    /\ rpc = "start" /\ composer = "create_hot_stock_report_email"
    /\ \A k \in 1..Len(compose_args.hot_stocks) :
          ~SignalFails(compose_args.hot_stocks[k])
    /\ email_body' = HotStockReport(compose_args.hot_stocks)
    /\ rpc' = "done"
    /\ UNCHANGED <<composer, compose_args>>

\* 04 main.py lines 82-88: a missing key raises KeyError, nothing catches it.
ComposeHotRaises ==
    /\ ComposerOnly
    /\ rpc = "start" /\ composer = "create_hot_stock_report_email"
    /\ \E k \in 1..Len(compose_args.hot_stocks) :
          SignalFails(compose_args.hot_stocks[k])
    /\ rpc' = "raised"
    /\ UNCHANGED <<composer, compose_args, email_body>>

NextComposer ==
    \/ ComposeMarket
    \/ ComposeHot
    \/ ComposeHotRaises

\* ----------------------------------------------------------- pipeline data
\* Items as get_market_news returns them to a main: no two with the same url.
Collected(title, content, url) ==
    [title |-> title, description |-> "", content |-> content, url |-> url,
     source |-> "Reuters", published_at |-> "p1", author |-> "w1"]

CollectedVals ==
    { Collected(<<"7">>, "c1", "u1"), Collected(<<"T">>, "", "u2"),
      Collected(None, "c3", "u3") }

CollectedLists ==
    { list \in UNION { [1..k -> CollectedVals] : k \in 0..MaxCollected } :
        \A a, b \in 1..Len(list) : a # b => list[a].url # list[b].url }

\* Frames that ticker.history returns.
PriceFrames ==
    { Frame(<<Row(100, 100), Row(100, 100), Row(500, 106)>>),
      Frame(<<Row(1, 1), Row(1, 1)>>),
      Frame(<<Row(1, 1)>>) }

\* config.py line 35: the requested symbols; a symbol may be listed twice.
TargetSymbolLists ==
    { << <<"7", ".", "T">>, <<"T">> >>,
      << <<"7", ".", "T">>, <<"T">>, <<"7", ".", "T">> >> }

\* What one ticker.history call does: a frame (possibly empty) or an exception.
HistoryOutcomes ==
    { [kind |-> "ok", df |-> f] : f \in PriceFrames \cup {Frame(<<>>)} }
    \cup { [kind |-> "raises", df |-> Frame(<<>>)] }

\* results[symbol] = df on an insertion-ordered dict.
Put(results, symbol, df) ==
    IF \E k \in 1..Len(results) : results[k].symbol = symbol
    THEN [k \in 1..Len(results) |->
             IF results[k].symbol = symbol THEN Item(symbol, df) ELSE results[k]]
    ELSE Append(results, Item(symbol, df))

RECURSIVE GetActiveCompanies(_, _)
\* hot_stock_collector.py lines 24-36: history[k] is the outcome of the k-th call.
GetActiveCompanies(symbols, history) ==
    IF symbols = <<>>
    THEN <<>>
    ELSE LET n == Len(symbols)
             results == GetActiveCompanies(SubSeq(symbols, 1, n - 1), history)
         IN  IF history[n].kind = "ok" /\ history[n].df.rows # <<>>
             THEN Put(results, symbols[n], history[n].df)
             ELSE results

NoLocals ==
    [articles |-> <<>>, summarized_articles |-> <<>>, daily_summary |-> <<>>,
     email_body |-> <<>>, success |-> FALSE, stock_data |-> <<>>,
     hot_stocks |-> <<>>, news_articles |-> <<>>]

NeverFalsy(v) == FALSE

\* `not v` for a list or a dict
Falsy(v) == v = <<>>

RECURSIVE SummarizeMultiple(_, _)
\* summarize_multiple_articles as a main sees it: the items that have a body, each
\* with a narrative, which is the placeholder when the backend failed.
SummarizeMultiple(items, failed) ==
    IF items = <<>>
    THEN <<>>
    ELSE (IF HasContent(Head(items))
          THEN <<WithSummary(Head(items),
                             IF failed \/ Head(items).title = None
                             THEN Placeholder(Head(items).title)
                             ELSE <<"s1">>)>>
          ELSE <<>>)
             \o SummarizeMultiple(Tail(items), failed)

\* What generate_daily_summary may return for a list.
DailySummariesOf(items) ==
    IF DailyIsEmpty(items)
    THEN { NothingNotable }
    ELSE { Strip(text) : text \in BackendTexts } \cup { DailyFallback }

RECURSIVE IdentifyHotStocks(_, _, _)
\* hot_stock_collector.py lines 49-73 over the whole map.
IdentifyHotStocks(data, vt, pt) ==
    IF data = <<>>
    THEN <<>>
    ELSE LET df == Head(data).df
         IN  (IF Len(df.rows) >= 2 /\ ~Malformed(df) /\ Reasons(df, vt, pt) # <<>>
              THEN <<[symbol |-> Head(data).symbol,
                      volume_ratio |-> VolumeRatio(df),
                      price_change |-> PriceChange(df),
                      reasons |-> Reasons(df, vt, pt)]>>
              ELSE <<>>)
                 \o IdentifyHotStocks(Tail(data), vt, pt)

RECURSIVE LinkNewsToStock(_, _)
\* hot_stock_collector.py lines 84-93 over the whole list (no title is None).
LinkNewsToStock(symbol, news) ==
    IF news = <<>>
    THEN <<>>
    ELSE (IF Matches(symbol, Head(news)) THEN <<Linked(Head(news))>> ELSE <<>>)
             \o LinkNewsToStock(symbol, Tail(news))

WithEmptyRelatedNews(stock, news) ==
    [key \in DOMAIN stock \cup {"related_news"} |->
        IF key = "related_news" THEN <<>> ELSE stock[key]]

\* 04 main.py lines 53-55: stock['related_news'] = link_news_to_stock(...)
WithRelatedNews(stock, news) ==
    [key \in DOMAIN stock \cup {"related_news"} |->
        IF key = "related_news"
        THEN LinkNewsToStock(stock.symbol, news)
        ELSE stock[key]]

\* The dicts main hands to create_hot_stock_report_email.
AsSignals(stocks) ==
    [k \in 1..Len(stocks) |->
        Signal(stocks[k].symbol, stocks[k].reasons, stocks[k].related_news)]

\* email_sender.py lines 47-89: True when the message went out, False on an
\* authentication error and on every other exception.
SendEmail(outcome) == outcome = "sent"

DeliveryOutcomes == { "sent", "auth", "error" }

DeliveryRetries(success) == IF success THEN "finished" ELSE "send"

\* 01 main.py lines 67-72 and 04 main.py lines 63-70: the result is logged and
\* main runs to its end.
AfterDelivery(success) == "finished"

\* An entry of the run's log: the stage, and whether it came back empty.
Stage(name, result) == [stage |-> name, empty |-> result = <<>>]

\* ---------------------------------------------------------- pipeline steps
IdlePipeline ==
    /\ program = "none"
    /\ PHASE1_AVAILABLE = FALSE
    /\ locals = NoLocals
    /\ stages = <<>>
    /\ ppc = "idle"

InitPipeline ==
    /\ \/ program = "01_basic_setup" /\ PHASE1_AVAILABLE = TRUE /\ ppc = "collect"
       \/ program = "04_hot_stocks" /\ PHASE1_AVAILABLE \in BOOLEAN /\ ppc = "prices"
    /\ locals = NoLocals
    /\ stages = <<>>

InBasic(pos) == program = "01_basic_setup" /\ ppc = pos

InHot(pos) == program = "04_hot_stocks" /\ ppc = pos

\* 01 main.py lines 27-32: collection; nothing collected ends the run.
MainCollect ==
    \E result \in CollectedLists :
        /\ PipelineOnly
        /\ InBasic("collect")
        /\ locals' = [locals EXCEPT !.articles = result]
        /\ stages' = Append(stages, Stage("collect", result))
        /\ ppc' = IF Falsy(result) THEN "returned" ELSE "narrate"
        /\ UNCHANGED <<program, PHASE1_AVAILABLE>>

\* 01 main.py lines 38-43: narration; nothing narrated ends the run.
MainNarrate ==
    \E failed \in BOOLEAN :
        LET result == SummarizeMultiple(locals.articles, failed)
        IN  /\ PipelineOnly
            /\ InBasic("narrate")
            /\ locals' = [locals EXCEPT !.summarized_articles = result]
            /\ stages' = Append(stages, Stage("narrate", result))
            /\ ppc' = IF Falsy(result) THEN "returned" ELSE "aggregate"
            /\ UNCHANGED <<program, PHASE1_AVAILABLE>>

\* 01 main.py line 47.
MainAggregate ==
    \E daily \in DailySummariesOf(locals.summarized_articles) :
        /\ PipelineOnly
        /\ InBasic("aggregate")
        /\ locals' = [locals EXCEPT !.daily_summary = daily]
        /\ stages' = Append(stages, Stage("aggregate", daily))
        /\ ppc' = "compose"
        /\ UNCHANGED <<program, PHASE1_AVAILABLE>>

\* 01 main.py line 54.
MainCompose ==
    LET body == MarketReport(locals.daily_summary, locals.summarized_articles)
    IN  /\ PipelineOnly
        /\ InBasic("compose")
        /\ locals' = [locals EXCEPT !.email_body = body]
        /\ stages' = Append(stages, Stage("compose", body))
        /\ ppc' = "send"
        /\ UNCHANGED <<program, PHASE1_AVAILABLE>>

\* 01 main.py lines 61-72 and 04 main.py lines 62-70: send_email, its result
\* logged, the closing log line.
MainSend ==
    \E outcome \in DeliveryOutcomes :
        LET success == SendEmail(outcome)
        IN  /\ PipelineOnly
            /\ ppc = "send"
            /\ locals' = [locals EXCEPT !.success = success]
            /\ stages' = stages
                   \o << [stage |-> "deliver", empty |-> FALSE],
                         [stage |-> IF success THEN "log-sent" ELSE "log-send-failed",
                          empty |-> FALSE] >>
            /\ ppc' = AfterDelivery(success)
            /\ UNCHANGED <<program, PHASE1_AVAILABLE>>

\* 04 main.py lines 27-30: price data; none ends the run.
HotPrices ==
    \E symbols \in TargetSymbolLists :
      \E history \in [1..Len(symbols) -> HistoryOutcomes] :
        LET result == GetActiveCompanies(symbols, history)
        IN
        /\ PipelineOnly
        /\ InHot("prices")
        /\ locals' = [locals EXCEPT !.stock_data = result]
        /\ stages' = Append(stages, Stage("prices", result))
        /\ ppc' = IF Falsy(result) THEN "returned" ELSE "detect"
        /\ UNCHANGED <<program, PHASE1_AVAILABLE>>

\* 04 main.py lines 33-41 with the thresholds config.py defaults to (2.0, 0.05);
\* no hot stock ends the run.
HotDetect ==
    LET result == IdentifyHotStocks(locals.stock_data, Frac(2, 1), Frac(1, 20))
    IN  /\ PipelineOnly
        /\ InHot("detect")
        /\ locals' = [locals EXCEPT !.hot_stocks = result]
        /\ stages' = Append(stages, Stage("detect", result))
        /\ ppc' = IF Falsy(result) THEN "returned" ELSE "news"
        /\ UNCHANGED <<program, PHASE1_AVAILABLE>>

\* 04 main.py lines 44-48: news collection when phase 1 is there (config.py makes
\* the API key mandatory); narration follows only for a non-empty Collection.
HotCollect ==
    \E result \in CollectedLists :
        /\ PipelineOnly
        /\ InHot("news") /\ PHASE1_AVAILABLE
        /\ locals' = [locals EXCEPT !.news_articles = result]
        /\ stages' = Append(stages, Stage("collect", result))
        /\ ppc' = IF Falsy(result) THEN "link" ELSE "narrate"
        /\ UNCHANGED <<program, PHASE1_AVAILABLE>>

\* 04 main.py lines 44-45 without phase 1: news_articles stays [].
HotNoNews ==
    /\ PipelineOnly
    /\ InHot("news") /\ ~PHASE1_AVAILABLE
    /\ ppc' = "link"
    /\ UNCHANGED <<program, PHASE1_AVAILABLE, locals, stages>>

\* 04 main.py lines 49-50.
HotNarrate ==
    \E failed \in BOOLEAN :
        LET result == SummarizeMultiple(locals.news_articles, failed)
        IN  /\ PipelineOnly
            /\ InHot("narrate")
            /\ locals' = [locals EXCEPT !.news_articles = result]
            /\ stages' = Append(stages, Stage("narrate", result))
            /\ ppc' = "link"
            /\ UNCHANGED <<program, PHASE1_AVAILABLE>>

\* 04 main.py lines 53-55.
HotLink ==
    LET news == locals.news_articles
        result == [k \in 1..Len(locals.hot_stocks) |->
                      WithRelatedNews(locals.hot_stocks[k], news)]
    IN  /\ PipelineOnly
        /\ InHot("link")
        /\ \A n \in 1..Len(news) : ~LinkFails(news[n])
        /\ locals' = [locals EXCEPT !.hot_stocks = result]
        /\ stages' = Append(stages, Stage("link", result))
        /\ ppc' = "report"
        /\ UNCHANGED <<program, PHASE1_AVAILABLE>>

\* 04 main.py line 55 with a narrated item whose title is None: the TypeError of
\* link_news_to_stock leaves main.
HotLinkRaises ==
    /\ PipelineOnly
    /\ InHot("link")
    /\ \E n \in 1..Len(locals.news_articles) : LinkFails(locals.news_articles[n])
    /\ stages' = Append(stages, [stage |-> "link", empty |-> FALSE])
    /\ ppc' = "raised"
    /\ UNCHANGED <<program, PHASE1_AVAILABLE, locals>>

\* 04 main.py lines 58-60: the report is composed for delivery.
HotCompose ==
    LET body == HotStockReport(AsSignals(locals.hot_stocks))
    IN  /\ PipelineOnly
        /\ InHot("report") /\ PHASE1_AVAILABLE
        /\ locals' = [locals EXCEPT !.email_body = body]
        /\ stages' = Append(stages, Stage("compose", body))
        /\ ppc' = "send"
        /\ UNCHANGED <<program, PHASE1_AVAILABLE>>

\* 04 main.py lines 67-70: without phase 1 the report is composed and printed.
HotPrint ==
    LET body == HotStockReport(AsSignals(locals.hot_stocks))
    IN  /\ PipelineOnly
        /\ InHot("report") /\ ~PHASE1_AVAILABLE
        /\ locals' = [locals EXCEPT !.email_body = body]
        /\ stages' = stages \o << Stage("compose", body),
                                  [stage |-> "print", empty |-> FALSE] >>
        /\ ppc' = "finished"
        /\ UNCHANGED <<program, PHASE1_AVAILABLE>>

NextPipeline ==
    \/ MainCollect
    \/ MainNarrate
    \/ MainAggregate
    \/ MainCompose
    \/ MainSend
    \/ HotPrices
    \/ HotDetect
    \/ HotCollect
    \/ HotNoNews
    \/ HotNarrate
    \/ HotLink
    \/ HotLinkRaises
    \/ HotCompose
    \/ HotPrint

\* ---------------------------------------------------------- specifications
\* Every component but the narrator at rest, and so on.
IdleButNarrator ==
    /\ IdleCollector /\ IdleDetector /\ IdleLinker /\ IdleAggregator
    /\ IdleComposer /\ IdlePipeline

IdleButCollector ==
    /\ IdleNarrator /\ IdleDetector /\ IdleLinker /\ IdleAggregator
    /\ IdleComposer /\ IdlePipeline

IdleButDetector ==
    /\ IdleNarrator /\ IdleCollector /\ IdleLinker /\ IdleAggregator
    /\ IdleComposer /\ IdlePipeline

IdleButLinker ==
    /\ IdleNarrator /\ IdleCollector /\ IdleDetector /\ IdleAggregator
    /\ IdleComposer /\ IdlePipeline

IdleButAggregator ==
    /\ IdleNarrator /\ IdleCollector /\ IdleDetector /\ IdleLinker
    /\ IdleComposer /\ IdlePipeline

IdleButComposer ==
    /\ IdleNarrator /\ IdleCollector /\ IdleDetector /\ IdleLinker
    /\ IdleAggregator /\ IdlePipeline

IdleButPipeline ==
    /\ IdleNarrator /\ IdleCollector /\ IdleDetector /\ IdleLinker
    /\ IdleAggregator /\ IdleComposer

StartNarrator == InitNarrator /\ IdleButNarrator

SpecNarrator == StartNarrator /\ [][NextNarrator]_vars

\* The interpreter runs the one thread of control until the function returns.
FairSpecNarrator == SpecNarrator /\ WF_vars(NextNarrator)

StartCollector == InitCollector /\ IdleButCollector

SpecCollector == StartCollector /\ [][NextCollector]_vars

StartDetector == InitDetector /\ IdleButDetector

SpecDetector == StartDetector /\ [][NextDetector]_vars

StartLinker == InitLinker /\ IdleButLinker

SpecLinker == StartLinker /\ [][NextLinker]_vars

StartAggregator == InitAggregator /\ IdleButAggregator

SpecAggregator == StartAggregator /\ [][NextAggregator]_vars

StartComposer == InitComposer /\ IdleButComposer

SpecComposer == StartComposer /\ [][NextComposer]_vars

StartPipeline == InitPipeline /\ IdleButPipeline

SpecPipeline == StartPipeline /\ [][NextPipeline]_vars

\* ======================================================== claims: narrator
Spaces(t) == \A k \in 1..Len(t) : t[k] = " "

\* `ret` is `text` without its leading and trailing whitespace.
IsStripped(text, ret) ==
    /\ ret = <<>> \/ (ret[1] # " " /\ ret[Len(ret)] # " ")
    /\ \E a \in 0..Len(text) :
          /\ a + Len(ret) <= Len(text)
          /\ SubSeq(text, a + 1, a + Len(ret)) = ret
          /\ Spaces(SubSeq(text, 1, a))
          /\ Spaces(SubSeq(text, a + Len(ret) + 1, Len(text)))

\* What summarize_multiple_articles passes for item j.
ItemRequest(j) ==
    [article_text |-> ContentOf(articles[j]), title |-> Get(articles[j], "title", "")]

\* C1: one summarize_news invocation sleeps the cool-down at most once and calls
\* the backend at most twice, whatever the backend answers.
C1_AtMostOneRetry ==
    /\ Len(invoc.sleeps) <= 1 /\ Len(invoc.outs) <= 2
    /\ Len(last.sleeps) <= 1 /\ Len(last.outs) <= 2

\* C2: throttled on the first call and answered on the second, summarize_news
\* returns the second answer (stripped) after exactly one 60-unit sleep and exactly
\* two backend calls, both carrying the item's article text and title.
C2_ThrottledOnceThenOk ==
    (last.returned /\ last.outs = <<"ratelimit", "ok">>) =>
        /\ last.sleeps = <<60>>
        /\ Len(last.reqs) = 2
        /\ last.reqs[1] = ItemRequest(last.item)
        /\ last.reqs[2] = last.reqs[1]
        /\ IsStripped(last.text, last.ret)
        /\ ~last.raised

C2_Witness ==
    /\ last.returned /\ last.outs = <<"ratelimit", "ok">>
    /\ last.reqs[1].title = "T1"
    /\ last.text = <<" ", "s2", " ">> /\ last.ret = <<"s2">>

\* C3: summarize_multiple_articles returns on every Collection, for every backend
\* behaviour, a backend that throttles every call included.
C3_Returns == <>(npc = "done")

C3_Witness ==
    /\ npc = "done"
    /\ Len(articles) = MaxArticles
    /\ Len(trace) > 0
    /\ \A k \in 1..Len(trace) :
          trace[k].k = "call" => trace[k].out = "ratelimit"

NonThrottleError(out) == out \in {"apierror", "exception"}

\* Item j of the Collection has an entry with a narrative in the result.
Narrated(j) ==
    \E k \in 1..Len(summarized_articles) :
        /\ "summary" \in DOMAIN summarized_articles[k]
        /\ summarized_articles[k] =
               WithSummary(articles[j], summarized_articles[k].summary)

\* C6: a non-throttle backend error makes summarize_news return the placeholder
\* with the item's title, without raising, and every later item of the Collection
\* that has a body is still narrated.
C6_FailureIsolated ==
    /\ (/\ last.item > 0 /\ last.outs # <<>>
        /\ NonThrottleError(last.outs[Len(last.outs)])) =>
           /\ last.returned /\ ~last.raised
           /\ last.ret = <<"SummaryError: ", ItemRequest(last.item).title>>
    /\ npc = "done" =>
           \A k \in 1..Len(trace) :
               (trace[k].k = "call" /\ NonThrottleError(trace[k].out)) =>
                   \A j \in (trace[k].i + 1)..Len(articles) :
                       HasContent(articles[j]) => Narrated(j)

C6_Witness ==
    /\ npc = "done"
    /\ Len(articles) = 2
    /\ Len(trace) >= 1
    /\ trace[1] = Event("call", 1, "apierror", 0)
    /\ Len(summarized_articles) = 2
    /\ summarized_articles[1].summary = <<"SummaryError: ", "T1">>
    /\ summarized_articles[2].summary = <<"s1">>

\* ======================================================= claims: collector
RECURSIVE SuccessfulFrom(_)
\* The articles of the fetches that succeeded, from fetch k on, concatenated.
SuccessfulFrom(k) ==
    IF k > Len(fetches)
    THEN <<>>
    ELSE (IF fetches[k].status = "ok" THEN fetches[k].articles ELSE <<>>)
             \o SuccessfulFrom(k + 1)

\* Whether s[k] is the first article of s with its url (a missing url is None).
IsFirstOccurrence(s, k) ==
    \A j \in 1..(k - 1) : Get(s[j], "url", NULL) # Get(s[k], "url", NULL)

RECURSIVE FirstOccurrencesUpTo(_, _)
FirstOccurrencesUpTo(s, n) ==
    IF n = 0
    THEN <<>>
    ELSE FirstOccurrencesUpTo(s, n - 1)
             \o (IF IsFirstOccurrence(s, n) THEN <<s[n]>> ELSE <<>>)

\* The Collection the contract describes: first occurrences, then the prefix.
ExpectedCollection ==
    LET merged == SuccessfulFrom(1)
        firsts == FirstOccurrencesUpTo(merged, Len(merged))
    IN  SubSeq(firsts, 1, IF max_articles < Len(firsts) THEN max_articles
                                                         ELSE Len(firsts))

\* The returned list holds the items of `expected`, in order.
ReturnsItemsOf(expected) ==
    /\ Len(formatted_articles) = Len(expected)
    /\ \A k \in 1..Len(expected) :
          /\ formatted_articles[k].title = expected[k].title
          /\ formatted_articles[k].url =
                 (IF expected[k].url = ABSENT THEN "" ELSE expected[k].url)

\* C4: the list get_market_news returns holds no two items with the same url.
C4_NoDuplicateUrl ==
    cpc = "done" =>
        \A a, b \in 1..Len(formatted_articles) :
            a # b => formatted_articles[a].url # formatted_articles[b].url

\* C5: get_market_news returns the first max_articles elements of the successful
\* responses concatenated in keyword order with only the first occurrence of each
\* url kept, so at most max_articles items.
C5_PrefixOfFirstOccurrences ==
    cpc = "done" =>
        /\ ReturnsItemsOf(ExpectedCollection)
        /\ Len(formatted_articles) <= max_articles

\* C7: when a fetch fails, the fetch of every later keyword among the first three
\* is still issued, and the items of the keywords that succeeded are returned.
C7_FailedFetchIsolated ==
    (cpc = "done" /\ \E k \in 1..Len(fetches) : fetches[k].status # "ok") =>
        /\ Len(fetches) = Len(QueriedKeywords)
        /\ \A k \in 1..Len(fetches) : fetches[k].q = QueriedKeywords[k]
        /\ ReturnsItemsOf(ExpectedCollection)

\* C8: get_market_news never propagates an exception, it returns a list; and the
\* list is empty when every fetch failed.
C8_NeverRaises ==
    /\ cpc # "raised"
    /\ cpc = "done" =>
          /\ DOMAIN formatted_articles = 1..Len(formatted_articles)
          /\ (\A k \in 1..Len(fetches) : fetches[k].status # "ok") =>
                 formatted_articles = <<>>

C8_Witness ==
    /\ cpc = "done"
    /\ Len(fetches) = KeywordCap
    /\ fetches[1].status = "transport"
    /\ fetches[2].status = "http"
    /\ fetches[3].status = "notok"
    /\ formatted_articles = <<>>

\* ======================================================== claims: detector
\* The symbols the loop has classified so far.
Classified == 1..(didx - 1)

\* Series with at least two points and both columns.
Analysable(df) == Len(df.rows) >= 2 /\ df.columns = {"Volume", "Close"}

Signals(symbol) == { k \in 1..Len(hot_stocks) : hot_stocks[k].symbol = symbol }

\* x >= t, inclusive; inf is above every threshold, nan compares False.
AtLeast(x, t) ==
    \/ x.den = 0 /\ x.num > 0
    \/ x.den > 0 /\ x.num * t.den >= t.num * x.den

Magnitude(x) == [num |-> IF x.num < 0 THEN 0 - x.num ELSE x.num, den |-> x.den]

\* C9: a symbol with at least two points is in the output iff
\* volume_ratio >= volume_threshold or |price_change| >= price_change_threshold
\* (both inclusive, the price check on the magnitude); its reasons are the volume
\* reason iff the first holds, then the price reason iff the second holds.
C9_Classification ==
    \A k \in Classified :
        LET symbol == stock_data[k].symbol
            df == stock_data[k].df
            volume == AtLeast(VolumeRatio(df), volume_threshold)
            price == AtLeast(Magnitude(PriceChange(df)), price_change_threshold)
        IN  Analysable(df) =>
              /\ (Signals(symbol) # {}) <=> (volume \/ price)
              /\ \A h \in Signals(symbol) :
                    /\ hot_stocks[h].volume_ratio = VolumeRatio(df)
                    /\ hot_stocks[h].price_change = PriceChange(df)
                    /\ hot_stocks[h].reasons # <<>>
                    /\ [r \in 1..Len(hot_stocks[h].reasons) |->
                           hot_stocks[h].reasons[r].rule]
                         = (IF volume THEN <<"volume">> ELSE <<>>)
                             \o (IF price THEN <<"price">> ELSE <<>>)

\* Volume ratio exactly at the threshold and a price drop exactly at -threshold.
C9_Witness ==
    /\ dpc = "done"
    /\ volume_threshold = Frac(2, 1) /\ price_change_threshold = Frac(1, 1)
    /\ Len(hot_stocks) = 1
    /\ hot_stocks[1].volume_ratio = Frac(2, 1)
    /\ hot_stocks[1].price_change = Frac(0 - 1, 1)
    /\ Len(hot_stocks[1].reasons) = 2

\* All volumes but the last are zero.
ZeroTrailingMean(df) ==
    \A r \in 1..(Len(df.rows) - 1) : df.rows[r].Volume = 0

\* With a zero trailing mean volume_ratio is 0 and the symbol is in the output
\* iff the price rule fires.
OnlyPriceDecides(k) ==
    LET symbol == stock_data[k].symbol
        df == stock_data[k].df
    IN  (Analysable(df) /\ ZeroTrailingMean(df)) =>
          /\ VolumeRatio(df) = [num |-> 0, den |-> 1]
          /\ \A h \in Signals(symbol) :
                hot_stocks[h].volume_ratio = [num |-> 0, den |-> 1]
          /\ (Signals(symbol) # {}) <=>
                 AtLeast(Magnitude(PriceChange(df)), price_change_threshold)

\* C10 as stated: for all threshold values.
C10_ZeroMeanAnyThreshold == \A k \in Classified : OnlyPriceDecides(k)

\* C10, amended: when the mean of all volumes except the last is zero,
\* volume_ratio is 0 with no division error, and for every positive
\* volume_threshold the symbol is in the output iff the price rule fires.
C10_ZeroMeanPositiveThreshold ==
    volume_threshold.num > 0 => \A k \in Classified : OnlyPriceDecides(k)

\* A zero trailing mean with a positive last volume, once excluded (price still)
\* and once included by the price rule alone.
C10_Witness ==
    /\ dpc = "done"
    /\ volume_threshold = Frac(2, 1) /\ price_change_threshold = Frac(1, 1)
    /\ Len(stock_data) = 2
    /\ stock_data[1].df.rows = <<Row(0, 1), Row(0, 1), Row(2, 1)>>
    /\ stock_data[2].df.rows = <<Row(0, 1), Row(2, 2)>>
    /\ Len(hot_stocks) = 1
    /\ hot_stocks[1].symbol = stock_data[2].symbol
    /\ hot_stocks[1].volume_ratio = Zero
    /\ Len(hot_stocks[1].reasons) = 1

\* ========================================================== claims: linker
\* The symbol with the text after its last '.' (and that '.') removed.
StripAfterLastDot(s) ==
    IF \E k \in 1..Len(s) : s[k] = "."
    THEN LET last_dot == CHOOSE k \in 1..Len(s) :
                             s[k] = "." /\ \A j \in (k + 1)..Len(s) : s[j] # "."
         IN  SubSeq(s, 1, last_dot - 1)
    ELSE s

\* The contract's rule: the title holds the symbol or the symbol without suffix.
ShouldLink(symbol, article) ==
    /\ TitleOf(article) # None
    /\ \/ Contains(TitleOf(article), symbol)
       \/ Contains(TitleOf(article), StripAfterLastDot(symbol))

RECURSIVE ExpectedLinks(_)
\* The items among the first n that the contract links, in input order.
ExpectedLinks(n) ==
    IF n = 0
    THEN <<>>
    ELSE ExpectedLinks(n - 1)
             \o (IF ShouldLink(stock_symbol, news_articles[n])
                 THEN <<Linked(news_articles[n])>> ELSE <<>>)

\* C11: link_news_to_stock returns, for every symbol and every list of items, a
\* list (never raising) that holds exactly the items, in input order, whose title
\* contains the symbol or the symbol with the text after its last '.' stripped.
C11_LinksByLastDot ==
    /\ lpc # "raised"
    /\ lpc = "done" => related = ExpectedLinks(Len(news_articles))

\* ======================================================== claims: composer
Count(text, tokens) == Cardinality({ k \in 1..Len(text) : text[k] \in tokens })

ReportTitles == { "MarketReportTitle", "HotStockReportTitle" }

Disclaimers == { "MarketDisclaimer", "HotStockDisclaimer" }

ItemMarks == { "1.", "2.", "3.", "4.", "5.", "6.", "7.", "8." }

TableMarks == { "Stock", "Reason", "RelatedNews:", "News" }

\* The section a fragment opens or belongs to, 0 for an interpolated value.
Rank(token) ==
    IF token \in ReportTitles THEN 1
    ELSE IF token = "SummaryHeading" THEN 2
    ELSE IF token = "DetailsHeading" \/ token \in ItemMarks THEN 3
    ELSE IF token \in TableMarks THEN 4
    ELSE IF token \in Disclaimers THEN 5
    ELSE 0

\* header/date first, one header, one disclaimer, sections in the fixed order.
SectionsInOrder(text) ==
    /\ Len(text) >= 2 /\ text[1] \in ReportTitles /\ text[2] = "today"
    /\ Count(text, ReportTitles) = 1
    /\ Count(text, Disclaimers) = 1
    /\ \A a, b \in 1..Len(text) :
          (a < b /\ Rank(text[a]) > 0 /\ Rank(text[b]) > 0) =>
              Rank(text[a]) <= Rank(text[b])

C13_ComposeNeverRaises ==
    /\ rpc # "raised"
    /\ rpc = "done" =>
          /\ email_body # <<>>
          /\ Count(email_body, ReportTitles) = 1
          /\ Count(email_body, Disclaimers) = 1

\* ============================================== claims: narrator (pacing)
CallsAt == { k \in 1..Len(trace) : trace[k].k = "call" }

PausesAt == { k \in 1..Len(trace) : trace[k].k = "sleep" /\ trace[k].secs = 1 }

\* C14: at the end of summarize_multiple_articles, between the backend calls of
\* two different items there was a pause of 1, and no pause followed the last
\* backend call of the batch.
C14_PauseBetweenCallsOnly ==
    npc = "done" =>
        /\ \A a, b \in CallsAt :
              (a < b /\ trace[a].i # trace[b].i) =>
                  \E p \in PausesAt : a < p /\ p < b
        /\ \A a \in CallsAt, p \in PausesAt :
              p > a => \E b \in CallsAt : b > p

\* ====================================================== claims: aggregate
\* C15: on a non-empty list generate_daily_summary issues exactly one backend
\* call, whose prompt covers the first 5 items in order and no other; when that
\* call fails the fixed sentence is returned; it never raises.
C15_OneCallFirstFive ==
    /\ gpc # "raised"
    /\ Len(gcalls) <= 1
    /\ (gpc = "done" /\ summary_input # <<>>) =>
          LET n == IF Len(summary_input) < 5 THEN Len(summary_input) ELSE 5
          IN  /\ Len(gcalls) = 1
              /\ Len(gcalls[1].prompt) = n
              /\ \A k \in 1..n :
                    /\ gcalls[1].prompt[k].n = k
                    /\ gcalls[1].prompt[k].title =
                           (IF summary_input[k].title = ABSENT THEN "Unknown"
                            ELSE IF summary_input[k].title = NULL THEN "None"
                            ELSE summary_input[k].title)
                    /\ gcalls[1].prompt[k].summary =
                           (IF summary_input[k].summary = ABSENT THEN "No summary"
                            ELSE summary_input[k].summary)
              /\ gcalls[1].out # "ok" => daily_summary = <<"DailySummaryError">>
              /\ gcalls[1].out = "ok" => daily_summary \in { <<"s1">>, <<"s2">> }

\* Six items, the backend throttled: one call over five items, the fallback.
C15_Witness ==
    /\ gpc = "done"
    /\ Len(summary_input) = 6
    /\ Len(gcalls) = 1 /\ gcalls[1].out = "ratelimit"
    /\ Len(gcalls[1].prompt) = 5
    /\ daily_summary = DailyFallback

\* C16: on an empty list generate_daily_summary makes no backend call and returns
\* the fixed 'nothing notable today' sentence.
C16_EmptyMakesNoCall ==
    summary_input = <<>> =>
        /\ gcalls = <<>>
        /\ gpc # "call"
        /\ gpc = "done" => daily_summary = <<"NothingNotableToday">>

C16_Witness ==
    /\ gpc = "done" /\ summary_input = <<>>
    /\ gcalls = <<>> /\ daily_summary = NothingNotable

\* ======================================================= claims: pipelines
StageNames == [k \in 1..Len(stages) |-> stages[k].stage]

Ran(name) == \E k \in 1..Len(stages) : stages[k].stage = name

CameBackEmpty(name) ==
    \E k \in 1..Len(stages) : stages[k].stage = name /\ stages[k].empty

\* C17: an empty result ends the run early and without error.  01 main: an empty
\* Collection returns before narration, an empty narrated list before the
\* aggregate, composition and delivery.  04 main: an empty price map returns
\* before detection, an empty hot-stock list before news collection, narration,
\* linking, composition and delivery; an empty news Collection skips narration
\* only, and the run goes on to linking, composition and delivery.
C17_EmptyEndsEarly ==
    /\ program = "01_basic_setup" =>
          /\ CameBackEmpty("collect") =>
                ppc = "returned" /\ StageNames = <<"collect">>
          /\ CameBackEmpty("narrate") =>
                ppc = "returned" /\ StageNames = <<"collect", "narrate">>
    /\ program = "04_hot_stocks" =>
          /\ CameBackEmpty("prices") =>
                ppc = "returned" /\ StageNames = <<"prices">>
          /\ CameBackEmpty("detect") =>
                ppc = "returned" /\ StageNames = <<"prices", "detect">>
          /\ CameBackEmpty("collect") =>
                /\ ~Ran("narrate")
                /\ ppc \notin {"returned", "raised"}
                /\ ppc = "finished" =>
                      SubSeq(StageNames, 3, 6)
                          = <<"collect", "link", "compose", "deliver">>

\* 04 main with hot stocks and no news: narration skipped, the report delivered.
C17_Witness ==
    /\ program = "04_hot_stocks" /\ ppc = "finished"
    /\ CameBackEmpty("collect")
    /\ StageNames
           = <<"prices", "detect", "collect", "link", "compose", "deliver", "log-sent">>
    /\ Len(locals.hot_stocks) = 2

DeliveredAt == { k \in 1..Len(stages) : stages[k].stage = "deliver" }

\* C18: in a run the delivery sink is invoked at most once, and after the report
\* was composed; when it returns false that is logged, the sink is not invoked
\* again and the run finishes without raising.
C18_DeliveredOnceAfterCompose ==
    /\ Cardinality(DeliveredAt) <= 1
    /\ \A k \in DeliveredAt :
          /\ \E j \in 1..(k - 1) : stages[j].stage = "compose"
          /\ ppc = "finished"
          /\ ~locals.success =>
                k + 1 = Len(stages) /\ stages[k + 1].stage = "log-send-failed"

\* 01 main whose delivery failed.
C18_Witness ==
    /\ program = "01_basic_setup" /\ ppc = "finished"
    /\ ~locals.success
    /\ StageNames = <<"collect", "narrate", "aggregate", "compose", "deliver",
                      "log-send-failed">>

\* ============================================= claims: collector (shaping)
ItemFields ==
    { "title", "description", "content", "url", "source", "published_at", "author" }

\* The raw key an item field is read from.
RawKey(field) == IF field = "published_at" THEN "publishedAt" ELSE field

\* C19: every field of every item get_market_news returns is a string, never
\* null, and is the empty string when the raw article lacks it.
C19_FieldsAreStrings ==
    cpc = "done" =>
        \A k \in 1..Len(formatted_articles), field \in ItemFields :
            /\ formatted_articles[k][field] # NULL
            /\ formatted_articles[k][field] # ABSENT
            /\ all_articles[k][RawKey(field)] = ABSENT =>
                   formatted_articles[k][field] = ""

\* C20: a raw article whose shaping fails does not cost the run the others: every
\* well-formed article among the first max_articles accepted is returned.
C20_MalformedItemIsolated ==
    cpc = "done" =>
        \A k \in 1..Len(all_articles) :
            all_articles[k].source # NULL =>
                \E j \in 1..Len(formatted_articles) :
                    formatted_articles[j].title = all_articles[k].title

\* ============================================ claims: collector (fetches)
\* The keywords of the call: the argument, or the default list for None.
GivenKeywords ==
    IF keywords.none
    THEN <<"market", "economy", "finance", "stocks", "trading",
           "investment", "economic", "financial", "business">>
    ELSE keywords.list

\* C21: a get_market_news call issues at most 3 fetches, the k-th for the k-th
\* keyword, so exactly one for each of the first 3 keywords in list order and
\* none for a later keyword, whatever the earlier fetches returned.
C21_FirstThreeKeywordsInOrder ==
    /\ Len(fetches) <= 3
    /\ \A k \in 1..Len(fetches) :
          k <= Len(GivenKeywords) /\ fetches[k].q = GivenKeywords[k]
    /\ cpc = "done" =>
          Len(fetches) = (IF Len(GivenKeywords) < 3 THEN Len(GivenKeywords) ELSE 3)

\* Four keywords given, the first fetch failed, the second brought articles.
C21_Witness ==
    /\ cpc = "done"
    /\ ~keywords.none /\ Len(keywords.list) = 4
    /\ Len(fetches) = 3
    /\ fetches[1].status = "transport"
    /\ fetches[2].status = "ok" /\ fetches[2].articles # <<>>

\* An article without url: the key is missing or null.
NoUrl(article) == article.url \in {ABSENT, NULL}

\* C29: of all the raw articles without url (absent or null) that the successful
\* fetches brought, only the first one encountered is accepted.
C29_OneUrlLessArticleKept ==
    /\ Cardinality({ k \in 1..Len(all_articles) : NoUrl(all_articles[k]) }) <= 1
    /\ cpc = "fetch" =>
          LET merged == SuccessfulFrom(1)
              without == { j \in 1..Len(merged) : NoUrl(merged[j]) }
          IN  without # {} =>
                \E k \in 1..Len(all_articles) :
                    /\ NoUrl(all_articles[k])
                    /\ \E j \in without :
                          /\ all_articles[k] = merged[j]
                          /\ \A h \in without : j <= h

\* A response with an article whose url is missing, then one whose url is null.
C29_Witness ==
    /\ Len(fetches) >= 1
    /\ fetches[1].status = "ok" /\ Len(fetches[1].articles) = 2
    /\ fetches[1].articles[1].url = ABSENT
    /\ fetches[1].articles[2].url = NULL
    /\ all_articles = <<fetches[1].articles[1]>>

\* ============================================== claims: detector (batch)
HasHistory(item) == Len(item.df.rows) >= 2

WellFormed(item) == Len(item.df.rows) < 2 \/ item.df.columns = {"Volume", "Close"}

\* C22: a symbol whose series has fewer than 2 points never appears in the
\* output, identify_hot_stocks does not raise on it, and the output is the one
\* the map without those symbols gives.
C22_ShortSeriesSkipped ==
    /\ dpc # "raised"
    /\ \A k \in 1..Len(stock_data) :
          ~HasHistory(stock_data[k]) => Signals(stock_data[k].symbol) = {}
    /\ dpc = "done" =>
          hot_stocks = IdentifyHotStocks(SelectSeq(stock_data, HasHistory),
                                         volume_threshold, price_change_threshold)

\* A one-point series before a series that is reported.
C22_Witness ==
    /\ dpc = "done"
    /\ Len(stock_data) = 2
    /\ Len(stock_data[1].df.rows) = 1
    /\ Len(hot_stocks) = 1 /\ hot_stocks[1].symbol = stock_data[2].symbol

\* C23: a symbol whose classification raises (a series of two or more points
\* that lacks the Volume or the Close column) is omitted, identify_hot_stocks
\* does not raise, and the output is the one the map without that symbol gives.
C23_MalformedSeriesOmitted ==
    /\ dpc # "raised"
    /\ \A k \in 1..Len(stock_data) :
          ~WellFormed(stock_data[k]) => Signals(stock_data[k].symbol) = {}
    /\ dpc = "done" =>
          hot_stocks = IdentifyHotStocks(SelectSeq(stock_data, WellFormed),
                                         volume_threshold, price_change_threshold)

\* A series without Volume before a series that is reported.
C23_Witness ==
    /\ dpc = "done"
    /\ Len(stock_data) = 2
    /\ Len(stock_data[1].df.rows) = 2 /\ stock_data[1].df.columns = {"Close"}
    /\ Len(hot_stocks) = 1 /\ hot_stocks[1].symbol = stock_data[2].symbol

RECURSIVE EarlierTotal(_, _)
\* The sum of the volumes of rows 1..n.
EarlierTotal(rows, n) ==
    IF n = 0 THEN 0 ELSE rows[n].Volume + EarlierTotal(rows, n - 1)

\* The series of the example: volumes 100,100,100,100,500, closes 10,10,10,10,10.6
\* (closes in tenths).
ExampleRows ==
    <<[Volume |-> 100, Close |-> 100], [Volume |-> 100, Close |-> 100],
      [Volume |-> 100, Close |-> 100], [Volume |-> 100, Close |-> 100],
      [Volume |-> 500, Close |-> 106]>>

\* C25: every reported signal has price_change = (lastClose - previousClose) /
\* previousClose and, when the earlier volumes are not all zero, volume_ratio =
\* lastVolume / mean(earlier volumes); the example series under thresholds
\* (2.0, 0.05) is reported with volume_ratio 5, price_change 6/100 and both
\* reasons. Fractions are compared by cross-multiplication.
C25_RatioAndChange ==
    \A k \in Classified :
        LET rows == stock_data[k].df.rows
            n == Len(rows)
            total == EarlierTotal(rows, n - 1)
        IN  /\ \A h \in Signals(stock_data[k].symbol) :
                  /\ hot_stocks[h].price_change.den = rows[n - 1].Close
                  /\ hot_stocks[h].price_change.num * rows[n - 1].Close
                       = (rows[n].Close - rows[n - 1].Close)
                             * hot_stocks[h].price_change.den
                  /\ hot_stocks[h].price_change.num
                       = rows[n].Close - rows[n - 1].Close
                  /\ total > 0 =>
                        hot_stocks[h].volume_ratio.num * total
                          = rows[n].Volume * (n - 1)
                                * hot_stocks[h].volume_ratio.den
            /\ ( /\ rows = ExampleRows
                 /\ volume_threshold = [num |-> 2, den |-> 1]
                 /\ price_change_threshold = [num |-> 1, den |-> 20] ) =>
                  \E h \in Signals(stock_data[k].symbol) :
                      /\ hot_stocks[h].volume_ratio.den > 0
                      /\ hot_stocks[h].volume_ratio.num
                           = 5 * hot_stocks[h].volume_ratio.den
                      /\ hot_stocks[h].price_change.den > 0
                      /\ hot_stocks[h].price_change.num * 100
                           = 6 * hot_stocks[h].price_change.den
                      /\ Len(hot_stocks[h].reasons) = 2
                      /\ hot_stocks[h].reasons[1].rule = "volume"
                      /\ hot_stocks[h].reasons[2].rule = "price"

\* The example series classified under (2.0, 0.05).
C25_Witness ==
    /\ dpc = "done"
    /\ volume_threshold = [num |-> 2, den |-> 1]
    /\ price_change_threshold = [num |-> 1, den |-> 20]
    /\ Len(stock_data) = 1 /\ stock_data[1].df.rows = ExampleRows
    /\ Len(hot_stocks) = 1

\* The place of a symbol in the iteration order of the input map.
Position(symbol) ==
    CHOOSE k \in 1..Len(stock_data) : stock_data[k].symbol = symbol

\* C24: the returned signals are a subsequence of the input map's iteration
\* order: every signal is for a symbol of the map, and signals come in strictly
\* increasing map position (so no symbol twice, and no ranking by magnitude).
C24_InputOrderKept ==
    /\ \A h \in 1..Len(hot_stocks) :
          \E k \in 1..Len(stock_data) : stock_data[k].symbol = hot_stocks[h].symbol
    /\ \A h, g \in 1..Len(hot_stocks) :
          h < g => Position(hot_stocks[h].symbol) < Position(hot_stocks[g].symbol)

\* Two signals, the weaker one (ratio 2, still price) before the stronger one
\* (ratio 5, price up).
C24_Witness ==
    /\ dpc = "done"
    /\ Len(hot_stocks) = 2
    /\ hot_stocks[1].symbol = stock_data[1].symbol
    /\ hot_stocks[1].volume_ratio.num = 2 * hot_stocks[1].volume_ratio.den
    /\ hot_stocks[1].price_change.num = 0
    /\ hot_stocks[2].volume_ratio.num = 5 * hot_stocks[2].volume_ratio.den
    /\ hot_stocks[2].price_change.num > 0

\* ============================================= claims: narrator (the batch)
\* A field that is there and not empty.
NonEmpty(article, key) ==
    key \in DOMAIN article /\ article[key] \notin {NULL, ABSENT, ""}

\* An item with a non-empty content or a non-empty description.
HasBody(article) == NonEmpty(article, "content") \/ NonEmpty(article, "description")

\* content when it is non-empty, else description.
BodyOf(article) ==
    IF NonEmpty(article, "content") THEN article.content ELSE article.description

\* The indices of the Collection the loop has dealt with.
Handled == { j \in 1..Len(articles) : j < i \/ (j = i /\ npc = "pace") }

\* How many of the items 1..j have a body.
BodiesUpTo(j) == Cardinality({ h \in 1..j : HasBody(articles[h]) })

\* C26 as stated: once summarize_multiple_articles has returned, every item of
\* the input Collection that was narrated carries the narrative field itself.
C26_NarratedInPlace ==
    npc = "done" =>
        \A j \in 1..Len(articles) :
            HasBody(articles[j]) => "summary" \in DOMAIN articles[j]

\* C26, amended: summarize_multiple_articles never writes to the input
\* Collection: no step changes it and none of its items ever gets the narrative
\* field; the narrative is on every item of the returned list.
C26_NarrativeOnCopiesOnly ==
    /\ [](/\ \A j \in 1..Len(articles) : "summary" \notin DOMAIN articles[j]
          /\ \A h \in 1..Len(summarized_articles) :
                "summary" \in DOMAIN summarized_articles[h])
    /\ [][articles' = articles]_vars

\* Two items narrated and returned, the input items still without narrative.
C26_Witness ==
    /\ npc = "done"
    /\ Len(articles) = 2 /\ Len(summarized_articles) = 2
    /\ "summary" \notin DOMAIN articles[1]
    /\ "summary" \in DOMAIN summarized_articles[1]

\* A generated text as summarize_news returns it, or the placeholder.
IsNarrative(summary) ==
    \/ \E text \in BackendTexts : IsStripped(text, summary)
    \/ Len(summary) = 2 /\ summary[1] = "SummaryError: "

\* C27: backend calls are made in Collection order, and the result lists the
\* narrated items in Collection order, each the input item plus a narrative
\* that is a generated text or the placeholder, whatever the backend did.
C27_CollectionOrder ==
    /\ \A a, b \in 1..Len(trace) :
          (a < b /\ trace[a].k = "call" /\ trace[b].k = "call") =>
              trace[a].i <= trace[b].i
    /\ \A h \in 1..Len(summarized_articles) :
          \E j \in Handled :
              /\ HasBody(articles[j]) /\ BodiesUpTo(j) = h
              /\ "summary" \in DOMAIN summarized_articles[h]
              /\ IsNarrative(summarized_articles[h].summary)
              /\ \A key \in DOMAIN articles[j] :
                    summarized_articles[h][key] = articles[j][key]

\* Two different items, the first answered after a throttle, the second failed.
C27_Witness ==
    /\ npc = "done"
    /\ Len(articles) = 2 /\ articles[1] # articles[2]
    /\ Len(summarized_articles) = 2
    /\ summarized_articles[1].summary = <<"s2">>
    /\ summarized_articles[2].summary[1] = "SummaryError: "
    /\ \E a \in 1..Len(trace) : trace[a].k = "call" /\ trace[a].out = "ratelimit"

\* C28: an item without content and without description gets no backend call and
\* no sleep; a backend call is made with the content when it is non-empty and
\* the description otherwise; the result has one item for each handled item with
\* a body, so at the end exactly as many items as the Collection has bodies.
C28_ItemsWithBodyOnly ==
    /\ \A a \in 1..Len(trace) : HasBody(articles[trace[a].i])
    /\ npc = "call" => HasBody(articles[i]) /\ req.article_text = BodyOf(articles[i])
    /\ Len(summarized_articles)
           = Cardinality({ j \in Handled : HasBody(articles[j]) })
    /\ npc = "done" => Len(summarized_articles) = BodiesUpTo(Len(articles))

\* An item with neither field is dropped, one with a description only is kept.
C28_Witness ==
    /\ npc = "done"
    /\ Len(articles) = 2
    /\ ~HasBody(articles[1])
    /\ articles[2].content = "" /\ articles[2].description = "d2"
    /\ Len(summarized_articles) = 1
    /\ summarized_articles[1].description = "d2"
    /\ trace # <<>>

\* ============================================ claims: 04 main (cross-linking)
\* The fields a signal has when identify_hot_stocks returns it.
DetectedFields == { "symbol", "volume_ratio", "price_change", "reasons" }

\* C30: in 04 main every signal that reaches composition has a related_news list,
\* the one link_news_to_stock gives for its symbol and the narrated items; and
\* from detection on no step reorders, adds or drops a signal or changes its
\* symbol, volume_ratio, price_change or reasons: related_news is the only
\* field that is added.
C30_OnlyRelatedNewsAdded ==
    /\ []((program = "04_hot_stocks" /\ Ran("compose")) =>
            /\ locals.hot_stocks # <<>>
            /\ \A k \in 1..Len(locals.hot_stocks) :
                  /\ DOMAIN locals.hot_stocks[k] = DetectedFields \cup {"related_news"}
                  /\ locals.hot_stocks[k].related_news
                       = LinkNewsToStock(locals.hot_stocks[k].symbol,
                                         locals.news_articles))
    /\ [][(program = "04_hot_stocks" /\ Ran("detect")) =>
            /\ Len(locals'.hot_stocks) = Len(locals.hot_stocks)
            /\ \A k \in 1..Len(locals.hot_stocks) :
                  /\ DOMAIN locals.hot_stocks[k] \subseteq DOMAIN locals'.hot_stocks[k]
                  /\ DOMAIN locals'.hot_stocks[k]
                       \subseteq DOMAIN locals.hot_stocks[k] \cup {"related_news"}
                  /\ \A key \in DetectedFields :
                        locals'.hot_stocks[k][key] = locals.hot_stocks[k][key]]_vars

\* Two signals composed, the first with one related item, the second with none.
C30_Witness ==
    /\ program = "04_hot_stocks" /\ Ran("compose")
    /\ Len(locals.hot_stocks) = 2
    /\ Len(locals.news_articles) = 1
    /\ "summary" \in DOMAIN locals.news_articles[1]
    /\ Len(locals.hot_stocks[1].related_news) = 1
    /\ locals.hot_stocks[2].related_news = <<>>

====
